---- MODULE Spec2Model ----
(***************************************************************************)
(* A model of brinick/lock: a mutual-exclusion primitive coordinated       *)
(* through the files of a shared directory (entry.go, util.go).            *)
(*                                                                         *)
(* A Go string is a sequence of one-character strings; a path is such a    *)
(* sequence; the filesystem is the set of the paths of its regular files.  *)
(* Time is a clock of whole seconds: time.Now().Unix() and, at the same    *)
(* resolution, time.Now().UnixNano() both read it.                         *)
(***************************************************************************)
EXTENDS Integers, Sequences, FiniteSets, TLC

(***************************************************************************)
(* Bounds of the model.                                                    *)
(***************************************************************************)
\* the clock stops advancing at MaxTime
MaxTime == 1
\* a caller makes at most MaxAttempts lock-creation attempts
MaxAttempts == 2
\* lock entries of other holders present when the model starts: 0..MaxPreLocks
MaxPreLocks == 3
\* the MaxWait values a caller may configure: 0..MaxMaxWait
MaxMaxWait == 0

\* the callers: two concurrent calls of Acquire, each in a process of its own
Callers == {1, 2}

(***************************************************************************)
(* Program constants (entry.go).                                           *)
(***************************************************************************)
requestFileType == <<".", "r", "e", "q", "u", "e", "s", "t">>
lockFileType == <<".", "l", "o", "c", "k">>
DefaultPollTime == 30
DefaultMaxWait == 3600
DefaultName == <<"d", "e", "f", "a", "u", "l", "t", "_", "l", "o", "c", "k">>
\* os.UserHomeDir() of the process
DefaultDir == <<"/", "h">>

(***************************************************************************)
(* The inputs of the model: the directory and the lock names callers may   *)
(* configure.                                                              *)
(***************************************************************************)
LockDir == <<"/", "d">>

Names == {<<"a">>, <<"b">>}

(***************************************************************************)
(* Strings: the library functions the code calls, computed as Go computes  *)
(* them.                                                                   *)
(***************************************************************************)
Digits == <<"0", "1", "2", "3", "4", "5", "6", "7", "8", "9">>

HasPrefix(s, p) == Len(s) >= Len(p) /\ SubSeq(s, 1, Len(p)) = p

\* strings.Replace(s, old, new, -1) and strings.ReplaceAll, old non-empty
RECURSIVE Replace(_, _, _)
Replace(s, old, new) ==
    IF Len(s) < Len(old) THEN s
    ELSE IF HasPrefix(s, old)
         THEN new \o Replace(SubSeq(s, Len(old) + 1, Len(s)), old, new)
         ELSE <<s[1]>> \o Replace(Tail(s), old, new)

\* strings.Split(s, sep), sep non-empty: the pieces around each instance of sep
RECURSIVE SplitFrom(_, _, _)
SplitFrom(s, sep, cur) ==
    IF s = <<>> THEN <<cur>>
    ELSE IF HasPrefix(s, sep)
         THEN <<cur>> \o SplitFrom(SubSeq(s, Len(sep) + 1, Len(s)), sep, <<>>)
         ELSE SplitFrom(Tail(s), sep, Append(cur, s[1]))

Split(s, sep) == SplitFrom(s, sep, <<>>)

\* strings.Contains
RECURSIVE Contains(_, _)
Contains(s, sub) ==
    IF Len(s) < Len(sub) THEN FALSE
    ELSE HasPrefix(s, sub) \/ Contains(Tail(s), sub)

\* the index of the last occurrence of character ch in s, 0 when there is none
LastIndex(s, ch) ==
    LET at == {i \in 1..Len(s) : s[i] = ch}
    IN  IF at = {} THEN 0 ELSE CHOOSE i \in at : \A j \in at : j <= i

\* fmt's %d of a non-negative integer
RECURSIVE Itoa(_)
Itoa(n) == IF n < 10 THEN <<Digits[n + 1]>>
           ELSE Itoa(n \div 10) \o <<Digits[(n % 10) + 1]>>

DigitValue(ch) == CHOOSE d \in 0..9 : Digits[d + 1] = ch

IsDigit(ch) == \E d \in 0..9 : Digits[d + 1] = ch

RECURSIVE ParseDigits(_, _)
ParseDigits(s, acc) ==
    IF s = <<>> THEN acc ELSE ParseDigits(Tail(s), 10 * acc + DigitValue(s[1]))

\* strconv.Atoi with its error dropped (value, _ := strconv.Atoi(when)): 0 when
\* s is not an optional sign followed by decimal digits only
Atoi(s) ==
    LET signed == s # <<>> /\ s[1] \in {"+", "-"}
        body == IF signed THEN Tail(s) ELSE s
    IN  IF body = <<>> \/ \E i \in 1..Len(body) : ~IsDigit(body[i]) THEN 0
        ELSE IF signed /\ s[1] = "-" THEN 0 - ParseDigits(body, 0)
        ELSE ParseDigits(body, 0)

\* filepath.Base, filepath.Dir, filepath.Ext and filepath.Join of clean paths
Base(path) == SubSeq(path, LastIndex(path, "/") + 1, Len(path))

Dir(path) ==
    LET i == LastIndex(path, "/")
    IN  IF i = 0 THEN <<".">> ELSE IF i = 1 THEN <<"/">> ELSE SubSeq(path, 1, i - 1)

Ext(path) ==
    LET b == Base(path)
        i == LastIndex(b, ".")
    IN  IF i = 0 THEN <<>> ELSE SubSeq(b, i, Len(b))

Join(dir, name) == dir \o <<"/">> \o name

(***************************************************************************)
(* The environment of a process: its host and clock (util.go).             *)
(***************************************************************************)
\* os.Hostname() of process p; process 1 runs on a host of the cern.ch domain
Hostname(p) ==
    IF p = 1 THEN <<"h", Digits[p + 1], ".", "c", "e", "r", "n", ".", "c", "h">>
    ELSE <<"h", Digits[p + 1]>>

currentNode(p) == Replace(Hostname(p), <<".", "c", "e", "r", "n", ".", "c", "h">>, <<>>)

\* the k-th token uuidgen gives caller c: tokens are unique, and hold dashes
newUUID(c, k) == <<Digits[c + 1], "-", Digits[k + 1]>>

(***************************************************************************)
(* Entries (entry.go): an entry is its path.                               *)
(***************************************************************************)
NoPath == <<>>

filetype(e) == Ext(e)

base(e) == Base(e)

dir(e) == Dir(e)

\* the pattern removed is "." followed by the file type, which itself starts
\* with a dot
fields(e) == Split(Replace(base(e), <<".">> \o filetype(e), <<>>), <<"_", "_">>)

name(e) == fields(e)[1]

node(e) == fields(e)[2]

ID(e) == fields(e)[3]

created(e) == Atoi(fields(e)[4])

\* name__node__id__created<filetype> in dir
entryPath(d, nm, nd, uuid, epoch, ft) ==
    Join(d, Replace(nm, <<"/">>, <<"_">>) \o <<"_", "_">> \o nd \o <<"_", "_">>
            \o Replace(uuid, <<"-">>, <<>>) \o <<"_", "_">> \o Itoa(epoch) \o ft)

\* Every path the model can make, and what the accessors above give for each:
\* a table computed once, which the operators on collections read.
Nodes == {currentNode(p) : p \in Callers} \cup {<<"x">>}

Tokens == {newUUID(c, k) : c \in Callers, k \in 0..MaxAttempts}
              \cup {<<"0", "-", Digits[i + 1]>> : i \in 1..MaxPreLocks}

AllPaths ==
    {entryPath(d, nm, nd, u, t, ft) :
        d \in {LockDir, DefaultDir}, nm \in Names \cup {DefaultName}, nd \in Nodes,
        u \in Tokens, t \in 0..MaxTime, ft \in {requestFileType, lockFileType}}

decoded ==
    [e \in AllPaths |->
        [dir |-> dir(e), filetype |-> filetype(e), name |-> name(e),
         node |-> node(e), ID |-> ID(e), created |-> created(e)]]

hasName(e, n) == decoded[e].name = n

hasNode(e, n) == decoded[e].node = n

\* filepath.Glob(dir/*): the files directly inside d
_entries(files, d) == {p \in files : decoded[p].dir = d}

withFiletype(es, ft) == {e \in es : decoded[e].filetype = ft}

requests(files, d) == withFiletype(_entries(files, d), requestFileType)

\* a variant of locks that counts the locks of one name only (C15 depends on
\* the count being of the whole directory)
locksOfOneName(files, d) ==
    {e \in withFiletype(_entries(files, d), lockFileType) : decoded[e].name = <<"b">>}

locks(files, d) == withFiletype(_entries(files, d), lockFileType)

\* a variant of match that finds no competitor (C16 depends on the requests
\* of one name being matched)
matchNone(es, ee) == {}

\* a variant of match without the name and node restriction: every other
\* entry competes (C4 depends on the restriction)
matchAny(es, ee) == {item \in es : item # ee}

\* the entries other than ee that share its node or its name
match(es, ee) ==
    {item \in es :
        item # ee /\ (hasNode(item, decoded[ee].node) \/ hasName(item, decoded[ee].name))}

\* sort.Slice by created() is not stable: any entry of minimal created() may
\* come first. The set of the entries oldest() may return.
oldest(es) == {e \in es : \A o \in es : decoded[e].created <= decoded[o].created}

IsOldest(files, e) ==
    LET vals == withFiletype(_entries(files, decoded[e].dir), decoded[e].filetype)
        found == match(vals, e)
    IN  found = {} \/ \E o \in oldest(found) : o = e

(***************************************************************************)
(* Errors.  A Go error value is modelled by what its message reports       *)
(* (says), the conversion applied where it was made (conv), and the        *)
(* method set of its dynamic type.                                         *)
(***************************************************************************)
NilErr == [conv |-> "nil", says |-> {}, methods |-> {}]

\* fmt.Errorf: a value whose dynamic type has the method Error() string
Errorf(says) == [conv |-> "error", says |-> says, methods |-> {"Error"}]

\* type ExistsErr error / type TooManyLocksErr error: converting to a named
\* interface type leaves the dynamic type of the value as it was
ExistsErr(err) == [err EXCEPT !.conv = "ExistsErr"]

TooManyLocksErr(err) == [err EXCEPT !.conv = "TooManyLocksErr"]

\* the method set of the interface type ExistsErr, whose underlying type is error
ExistsErrMethods == {"Error"}

\* the branch the type switch of Acquire takes: case nil, then case ExistsErr,
\* which holds of every value whose dynamic type implements that interface
errCase(err) ==
    IF err = NilErr THEN "nil"
    ELSE IF ExistsErrMethods \subseteq err.methods THEN "ExistsErr"
    ELSE "default"

(***************************************************************************)
(* Configurations.                                                         *)
(***************************************************************************)
Configurations ==
    [Dir : {LockDir}, Name : Names, PollInterval : {1}, MaxWait : 0..MaxMaxWait]

DefaultConfig ==
    [Dir |-> DefaultDir, Name |-> DefaultName,
     PollInterval |-> DefaultPollTime, MaxWait |-> DefaultMaxWait]

(***************************************************************************)
(* State.                                                                  *)
(***************************************************************************)
VARIABLES
    fs,        \* the filesystem: the set of the paths of the files that exist
    clock,     \* the time, in seconds
    procOf,    \* the process each caller runs in
    arg,       \* history: the argument cfg of each caller's call of Acquire
    config,    \* the package variable config of each process
    pc,        \* where each caller is in Acquire
    req,       \* Acquire's req: the caller's request entry
    started,   \* timedOut's started
    max,       \* timedOut's max
    pending,   \* create's e, between its count of the locks and its write
    wakeAt,    \* when a sleeping caller's time.Sleep ends
    result,    \* what Acquire returned: [lck, err]
    attempts,  \* history: how many times the caller has called create()
    seen,      \* history: the lock count of the caller's last create(), or -1
    slept,     \* history: whether the caller has called time.Sleep
    exit,      \* history: the return statement Acquire left by
    rm,        \* history: how req.Remove() ended: "none", "ok" or "failed"
    iofail     \* history: whether a call of the caller to the system has failed

vars == <<fs, clock, procOf, arg, config, pc, req, started, max, pending, wakeAt,
          result, attempts, seen, slept, exit, rm, iofail>>

NoResult == [lck |-> NoPath, err |-> NilErr]

\* the i-th lock of another holder on host x, present from the start
preLock(i) ==
    entryPath(LockDir, IF i % 2 = 1 THEN <<"a">> ELSE <<"b">>, <<"x">>,
              <<"0", "-", Digits[i + 1]>>, 0, lockFileType)

preLocks(k) == {preLock(i) : i \in 1..k}

\* the argument of a call of Acquire: nil, or a pointer to a Configuration
NilArg == [isNil |-> TRUE, cfg |-> DefaultConfig]

\* no caller has called Acquire; the package variable config of every process
\* holds DefaultConfig()
InitState ==
    /\ clock = 0
    /\ arg = [c \in Callers |-> NilArg]
    /\ config = [p \in Callers |-> DefaultConfig]
    /\ pc = [c \in Callers |-> "idle"]
    /\ req = [c \in Callers |-> NoPath]
    /\ started = [c \in Callers |-> 0]
    /\ max = [c \in Callers |-> 0]
    /\ pending = [c \in Callers |-> NoPath]
    /\ wakeAt = [c \in Callers |-> 0]
    /\ result = [c \in Callers |-> NoResult]
    /\ attempts = [c \in Callers |-> 0]
    /\ seen = [c \in Callers |-> -1]
    /\ slept = [c \in Callers |-> FALSE]
    /\ exit = [c \in Callers |-> "none"]
    /\ rm = [c \in Callers |-> "none"]
    /\ iofail = [c \in Callers |-> FALSE]

\* every caller in a process of its own, on a host of its own
InitCallers == procOf = [c \in Callers |-> c] /\ InitState

Init == InitCallers /\ \E k \in 0..MaxPreLocks : fs = preLocks(k)

(***************************************************************************)
(* Steps of the environment.                                               *)
(***************************************************************************)
Tick ==
    /\ clock < MaxTime
    /\ clock' = clock + 1
    /\ UNCHANGED <<fs, procOf, arg, config, pc, req, started, max, pending, wakeAt,
                   result, attempts, seen, slept, exit, rm, iofail>>

currentEpoch == clock

\* a variant of Remove that empties the directory (C11 depends on the removal
\* of the one path)
RemoveEvery(files, path, ok) == IF ok THEN {} ELSE files

\* os.Remove(path) that succeeds (ok) or fails and leaves the file
Remove(files, path, ok) == IF ok THEN files \ {path} ELSE files

\* os.WriteFile(path) that succeeds (ok) or fails
WriteFile(files, path, ok) == IF ok THEN files \cup {path} ELSE files

(***************************************************************************)
(* Acquire (entry.go), one caller c at a time.                             *)
(***************************************************************************)
\* a variant of createEntryPath that drops the configured name (C7 depends on
\* the name being encoded in the path)
createEntryPathUnnamed(p, d, nm, ft, uuid) ==
    entryPath(d, DefaultName, currentNode(p), uuid, currentEpoch, ft)

createEntryPath(p, d, nm, ft, uuid) ==
    entryPath(d, nm, currentNode(p), uuid, currentEpoch, ft)

\* a variant of the deadline test with the comparison reversed (C5 depends on
\* its direction)
isTimeOutReversed(now, startedAt, mx) == (now - startedAt) < mx

\* the closure timedOut returns: (time.Now().Unix() - started) > max
isTimeOut(now, startedAt, mx) == (now - startedAt) > mx

\* the message of the error Acquire returns when it times out waiting for its
\* turn: msg is assigned, not extended, when the removal fails
waitTimeoutMsg(removed) == IF removed THEN {"TimedOut"} ELSE {"RemoveFailed"}

\* a variant of create's switch that never takes the write branch on 0 locks
\* (C8 depends on it)
lockCountCaseNoZero(n) ==
    IF n = 0 THEN "exists" ELSE IF n <= 2 THEN "exists" ELSE "toomany"

\* a variant of create's switch that writes when it counted 1 lock (C9 depends
\* on the write branch being taken for 0 locks only)
lockCountCaseUpToOne(n) ==
    IF n <= 1 THEN "write" ELSE IF n <= 2 THEN "exists" ELSE "toomany"

\* create's switch on the number n of locks it counted
lockCountCase(n) ==
    IF n = 0 THEN "write" ELSE IF n <= 2 THEN "exists" ELSE "toomany"

\* the error create returns without writing, from the number of locks
countErr(n) ==
    IF lockCountCase(n) = "exists" THEN ExistsErr(Errorf({"LocksExist"}))
    ELSE TooManyLocksErr(Errorf({"TooManyLocks"}))

\* the error Acquire returns from its default branch
failedErr(err, removed) ==
    IF removed THEN err
    ELSE Errorf({"CreateLockFailed", "RemoveFailed"} \cup err.says)

\* history: the outcome ok of a call to the system
Sys(c, ok) == iofail' = [iofail EXCEPT ![c] = @ \/ ~ok]

Return(c, lck, err, by) ==
    /\ pc' = [pc EXCEPT ![c] = "done"]
    /\ result' = [result EXCEPT ![c] = [lck |-> lck, err |-> err]]
    /\ exit' = [exit EXCEPT ![c] = by]

\* Acquire up to createDir: config = *cfg unless cfg is nil, then os.MkdirAll
AcquireStart(c, cfgIsNil, cfg) ==
    /\ pc[c] = "idle"
    /\ config' = IF cfgIsNil THEN config ELSE [config EXCEPT ![procOf[c]] = cfg]
    /\ arg' = [arg EXCEPT ![c] = IF cfgIsNil THEN NilArg ELSE [isNil |-> FALSE, cfg |-> cfg]]
    /\ \E ok \in BOOLEAN :
          /\ Sys(c, ok)
          /\ IF ok
             THEN /\ pc' = [pc EXCEPT ![c] = "request"]
                  /\ UNCHANGED <<result, exit>>
             ELSE Return(c, NoPath, Errorf({"MkdirFailed"}), "mkdir")
    /\ UNCHANGED <<fs, clock, procOf, req, started, max, pending, wakeAt,
                   attempts, seen, slept, rm>>

\* createRequest, then timedOut(config.MaxWait)
CreateRequest(c) ==
    /\ pc[c] = "request"
    /\ \E uuidOk, writeOk \in BOOLEAN :
          LET cf == config[procOf[c]]
              path == createEntryPath(procOf[c], cf.Dir, cf.Name, requestFileType,
                                      newUUID(c, 0))
          IN  /\ Sys(c, uuidOk /\ writeOk)
              /\ IF uuidOk /\ writeOk
                 THEN /\ fs' = WriteFile(fs, path, TRUE)
                      /\ req' = [req EXCEPT ![c] = path]
                      /\ started' = [started EXCEPT ![c] = clock]
                      /\ max' = [max EXCEPT ![c] = cf.MaxWait]
                      /\ pc' = [pc EXCEPT ![c] = "wait"]
                      /\ UNCHANGED <<result, exit>>
                 ELSE /\ Return(c, NoPath,
                                Errorf(IF uuidOk THEN {"CreateFailed"}
                                       ELSE {"UUIDFailed"}),
                                "request")
                      /\ UNCHANGED <<fs, req, started, max>>
    /\ UNCHANGED <<clock, procOf, arg, config, pending, wakeAt, attempts, seen, slept, rm>>

\* a variant of WaitTurn that restarts the deadline on entering the lock
\* phase (C10 depends on the start being kept)
WaitTurnRestart(c) ==
    /\ pc[c] = "wait"
    /\ IF IsOldest(fs, req[c])
       THEN /\ pc' = [pc EXCEPT ![c] = "lock"]
            /\ started' = [started EXCEPT ![c] = clock]
            /\ UNCHANGED <<fs, result, exit, rm, wakeAt, slept, iofail>>
       ELSE IF isTimeOut(clock, started[c], max[c])
       THEN \E ok \in BOOLEAN :
               /\ Sys(c, ok)
               /\ fs' = Remove(fs, req[c], ok)
               /\ rm' = [rm EXCEPT ![c] = IF ok THEN "ok" ELSE "failed"]
               /\ Return(c, NoPath, Errorf(waitTimeoutMsg(ok)), "wait_timeout")
               /\ UNCHANGED <<wakeAt, slept, started>>
       ELSE /\ pc' = [pc EXCEPT ![c] = "sleep"]
            /\ wakeAt' = [wakeAt EXCEPT ![c] = clock + config[procOf[c]].PollInterval]
            /\ slept' = [slept EXCEPT ![c] = TRUE]
            /\ UNCHANGED <<fs, result, exit, rm, iofail, started>>
    /\ UNCHANGED <<clock, procOf, arg, config, req, max, pending, attempts, seen>>

\* one pass of the loop "for !req.IsOldest()": leave it, time out, or sleep
WaitTurn(c) ==
    /\ pc[c] = "wait"
    /\ IF IsOldest(fs, req[c])
       THEN /\ pc' = [pc EXCEPT ![c] = "lock"]
            /\ UNCHANGED <<fs, result, exit, rm, wakeAt, slept, iofail>>
       ELSE IF isTimeOut(clock, started[c], max[c])
       THEN \E ok \in BOOLEAN :
               /\ Sys(c, ok)
               /\ fs' = Remove(fs, req[c], ok)
               /\ rm' = [rm EXCEPT ![c] = IF ok THEN "ok" ELSE "failed"]
               /\ Return(c, NoPath, Errorf(waitTimeoutMsg(ok)), "wait_timeout")
               /\ UNCHANGED <<wakeAt, slept>>
       ELSE /\ pc' = [pc EXCEPT ![c] = "sleep"]
            /\ wakeAt' = [wakeAt EXCEPT ![c] = clock + config[procOf[c]].PollInterval]
            /\ slept' = [slept EXCEPT ![c] = TRUE]
            /\ UNCHANGED <<fs, result, exit, rm, iofail>>
    /\ UNCHANGED <<clock, procOf, arg, config, req, started, max, pending, attempts, seen>>

\* time.Sleep returns
Wake(c) ==
    /\ pc[c] = "sleep"
    /\ clock >= wakeAt[c]
    /\ pc' = [pc EXCEPT ![c] = "wait"]
    /\ wakeAt' = [wakeAt EXCEPT ![c] = 0]
    /\ UNCHANGED <<fs, clock, procOf, arg, config, req, started, max, pending, result,
                   attempts, seen, slept, exit, rm, iofail>>

\* Acquire's switch on the error of create(), the lock having been written
\* (err nil) or not; files is the filesystem create() leaves, and sysOk
\* whether create's calls to the system succeeded
AfterCreate(c, files, lck, err, sysOk) ==
    IF errCase(err) = "nil"
    THEN \E ok \in BOOLEAN :
            /\ Sys(c, sysOk /\ ok)
            /\ fs' = Remove(files, req[c], ok)
            /\ rm' = [rm EXCEPT ![c] = IF ok THEN "ok" ELSE "failed"]
            /\ Return(c, lck, IF ok THEN NilErr ELSE Errorf({"RemoveError"}), "acquired")
    ELSE IF errCase(err) = "ExistsErr"
    THEN /\ Sys(c, sysOk)
         /\ fs' = files
         /\ pc' = [pc EXCEPT ![c] = "lock"]
         /\ UNCHANGED <<result, exit, rm>>
    ELSE \E ok \in BOOLEAN :
            /\ Sys(c, sysOk /\ ok)
            /\ fs' = Remove(files, req[c], ok)
            /\ rm' = [rm EXCEPT ![c] = IF ok THEN "ok" ELSE "failed"]
            /\ Return(c, NoPath, failedErr(err, ok), "failed")

\* the loop "for !isTimeOut()" entered with the deadline passed: return lck, nil
LockTimeout(c) ==
    /\ pc[c] = "lock"
    /\ isTimeOut(clock, started[c], max[c])
    /\ Return(c, NoPath, NilErr, "lock_timeout")
    /\ UNCHANGED <<fs, clock, procOf, arg, config, req, started, max, pending, wakeAt,
                   attempts, seen, slept, rm, iofail>>

\* one pass of the loop "for !isTimeOut()", up to create's count of the locks:
\* with no lock counted the write is the caller's next step
LockAttempt(c) ==
    /\ pc[c] = "lock"
    /\ ~isTimeOut(clock, started[c], max[c])
    /\ attempts[c] < MaxAttempts
    /\ attempts' = [attempts EXCEPT ![c] = @ + 1]
    /\ \E uuidOk \in BOOLEAN :
          LET cf == config[procOf[c]]
              path == createEntryPath(procOf[c], cf.Dir, cf.Name, lockFileType,
                                      newUUID(c, attempts[c] + 1))
              n == Cardinality(locks(fs, cf.Dir))
          IN  IF ~uuidOk
              THEN /\ seen' = [seen EXCEPT ![c] = -1]
                   /\ AfterCreate(c, fs, NoPath, Errorf({"UUIDFailed"}), FALSE)
                   /\ UNCHANGED pending
              ELSE IF lockCountCase(n) = "write"
              THEN /\ seen' = [seen EXCEPT ![c] = n]
                   /\ pending' = [pending EXCEPT ![c] = path]
                   /\ pc' = [pc EXCEPT ![c] = "write"]
                   /\ UNCHANGED <<fs, result, exit, rm, iofail>>
              ELSE /\ seen' = [seen EXCEPT ![c] = n]
                   /\ AfterCreate(c, fs, NoPath, countErr(n), TRUE)
                   /\ UNCHANGED pending
    /\ UNCHANGED <<clock, procOf, arg, config, req, started, max, wakeAt, slept>>

\* create's write of the lock, and Acquire's switch on its outcome
LockWrite(c) ==
    /\ pc[c] = "write"
    /\ \E ok \in BOOLEAN :
          IF ok
          THEN AfterCreate(c, WriteFile(fs, pending[c], TRUE), pending[c], NilErr, TRUE)
          ELSE AfterCreate(c, fs, NoPath, Errorf({"CreateFailed"}), FALSE)
    /\ pending' = [pending EXCEPT ![c] = NoPath]
    /\ UNCHANGED <<clock, procOf, arg, config, req, started, max, wakeAt, attempts,
                   seen, slept>>

(***************************************************************************)
(* Releasing a lock (cli.go, deleteCmd): the holder removes the one file   *)
(* of the lock's directory whose name holds __<id>__.                      *)
(***************************************************************************)
deleteMatch(files, d, id) ==
    {p \in _entries(files, d) : Contains(Base(p), <<"_", "_">> \o id \o <<"_", "_">>)}

\* caller c, to which Acquire returned a lock, releases it
DeleteCmd(c) ==
    /\ result[c].lck \in fs
    /\ LET l == result[c].lck
           found == deleteMatch(fs, decoded[l].dir, decoded[l].ID)
       IN  /\ Cardinality(found) = 1
           /\ \E ok \in BOOLEAN : fs' = Remove(fs, CHOOSE p \in found : TRUE, ok)
    /\ UNCHANGED <<clock, procOf, arg, config, pc, req, started, max, pending, wakeAt,
                   result, attempts, seen, slept, exit, rm, iofail>>

Next ==
    \/ Tick
    \/ \E c \in Callers : \E cfg \in Configurations : AcquireStart(c, FALSE, cfg)
    \/ \E c \in Callers : CreateRequest(c)
    \/ \E c \in Callers : WaitTurn(c)
    \/ \E c \in Callers : Wake(c)
    \/ \E c \in Callers : LockTimeout(c)
    \/ \E c \in Callers : LockAttempt(c)
    \/ \E c \in Callers : LockWrite(c)
    \/ \E c \in Callers : DeleteCmd(c)

Spec == Init /\ [][Next]_vars

(***************************************************************************)
(* Sequential execution: on a directory that starts empty, a call of       *)
(* Acquire starts only when no other call is running and every lock that   *)
(* was returned has been released.                                         *)
(***************************************************************************)
InitSeq == InitCallers /\ fs = {}

SeqStart(c, cfg) ==
    /\ \A d \in Callers : pc[d] \in {"idle", "done"} /\ result[d].lck \notin fs
    /\ AcquireStart(c, FALSE, cfg)

NextSeq ==
    \/ Tick
    \/ \E c \in Callers : \E cfg \in Configurations : SeqStart(c, cfg)
    \/ \E c \in Callers : CreateRequest(c)
    \/ \E c \in Callers : WaitTurn(c)
    \/ \E c \in Callers : Wake(c)
    \/ \E c \in Callers : LockTimeout(c)
    \/ \E c \in Callers : LockAttempt(c)
    \/ \E c \in Callers : LockWrite(c)
    \/ \E c \in Callers : DeleteCmd(c)

SpecSeq == InitSeq /\ [][NextSeq]_vars

(***************************************************************************)
(* Concurrent execution on a directory that starts empty: every lock of    *)
(* the directory is one a call of Acquire wrote.                           *)
(***************************************************************************)
SpecEmpty == InitSeq /\ [][Next]_vars

(***************************************************************************)
(* Fair execution on a directory that starts empty: time passes and a call *)
(* that can take a step takes it.  The clock stops at MaxTime, so callers  *)
(* poll with a sleep of 0 seconds, which always ends, and wait either 0    *)
(* seconds or MaxTime seconds, a deadline that never passes.               *)
(***************************************************************************)
LiveConfigurations ==
    [Dir : {LockDir}, Name : Names, PollInterval : {0}, MaxWait : {0, MaxTime}]

NextLive ==
    \/ Tick
    \/ \E c \in Callers : \E cfg \in LiveConfigurations : AcquireStart(c, FALSE, cfg)
    \/ \E c \in Callers : CreateRequest(c)
    \/ \E c \in Callers : WaitTurn(c)
    \/ \E c \in Callers : Wake(c)
    \/ \E c \in Callers : LockTimeout(c)
    \/ \E c \in Callers : LockAttempt(c)
    \/ \E c \in Callers : LockWrite(c)
    \/ \E c \in Callers : DeleteCmd(c)

Fairness ==
    /\ WF_vars(Tick)
    /\ \A c \in Callers :
        /\ WF_vars(CreateRequest(c))
        /\ WF_vars(WaitTurn(c))
        /\ WF_vars(Wake(c))
        /\ WF_vars(LockTimeout(c))
        /\ WF_vars(LockAttempt(c))
        /\ WF_vars(LockWrite(c))

SpecLive == InitSeq /\ [][NextLive]_vars /\ Fairness

(***************************************************************************)
(* Calls of one process: the callers are goroutines of process 1 and share *)
(* its package variable config; a call passes a Configuration or nil.      *)
(***************************************************************************)
InitProc == procOf = [c \in Callers |-> 1] /\ InitState /\ fs = {}

NextProc ==
    \/ Tick
    \/ \E c \in Callers : \E cfg \in Configurations : AcquireStart(c, FALSE, cfg)
    \/ \E c \in Callers : AcquireStart(c, TRUE, DefaultConfig)
    \/ \E c \in Callers : CreateRequest(c)
    \/ \E c \in Callers : WaitTurn(c)
    \/ \E c \in Callers : Wake(c)
    \/ \E c \in Callers : LockTimeout(c)
    \/ \E c \in Callers : LockAttempt(c)
    \/ \E c \in Callers : LockWrite(c)
    \/ \E c \in Callers : DeleteCmd(c)

SpecProc == InitProc /\ [][NextProc]_vars

(***************************************************************************)
(* A single caller: on a directory that starts empty, one caller runs      *)
(* Acquire and no other caller ever starts.                                *)
(***************************************************************************)
Solo(c) == \A d \in Callers \ {c} : pc[d] = "idle"

NextSolo ==
    \/ Tick
    \/ \E c \in Callers : \E cfg \in Configurations :
          Solo(c) /\ AcquireStart(c, FALSE, cfg)
    \/ \E c \in Callers : Solo(c) /\ CreateRequest(c)
    \/ \E c \in Callers : Solo(c) /\ WaitTurn(c)
    \/ \E c \in Callers : Solo(c) /\ LockTimeout(c)
    \/ \E c \in Callers : Solo(c) /\ LockAttempt(c)
    \/ \E c \in Callers : Solo(c) /\ LockWrite(c)

SpecSolo == InitSeq /\ [][NextSolo]_vars

(***************************************************************************)
(* Properties.                                                             *)
(***************************************************************************)
\* the timestamp an entry's path was made with: the fourth field of its base
\* name without the file type
stampOf(e) ==
    LET b == Base(e)
    IN  Atoi(Split(SubSeq(b, 1, Len(b) - Len(Ext(e))), <<"_", "_">>)[4])

stamps == [e \in AllPaths |-> stampOf(e)]

stamp(e) == stamps[e]

\* the entries of e's kind, other than e, that share its name or its node
peers(files, e) ==
    {o \in files \ {e} :
        /\ decoded[o].dir = decoded[e].dir
        /\ decoded[o].filetype = decoded[e].filetype
        /\ decoded[o].name = decoded[e].name \/ decoded[o].node = decoded[e].node}

AllRequests == requests(fs, LockDir)

\* C1: on every directory the program reaches whose requests carry different
\* timestamps, IsOldest(e) is true exactly when no other request that shares
\* e's name or node was created strictly before e; so of two requests for one
\* name it is true for the earlier one and false for the other.
C1_IsOldestIffNoOlderPeer ==
    (\A e, o \in AllRequests : e # o => stamp(e) # stamp(o))
        => \A e \in AllRequests :
              IsOldest(fs, e) <=> ~\E o \in peers(fs, e) : stamp(o) < stamp(e)

\* whether caller c's deadline has passed
Elapsed(c) == clock - started[c] > max[c]

\* C2: a caller whose deadline passes in the lock-attempt phase, every attempt
\* having found a lock, returns a non-nil error and no lock, and its request is
\* gone from the directory when Acquire returns.
C2_LockPhaseTimeoutIsAnError ==
    \A c \in Callers :
        (pc[c] = "done" /\ exit[c] = "lock_timeout" /\ seen[c] >= 1)
            => /\ result[c].err # NilErr
               /\ result[c].lck = NoPath
               /\ req[c] \notin fs

\* C3: a caller whose creation attempt counted more than 2 locks has failed on
\* that attempt: Acquire has returned a non-nil error and no lock.
C3_TooManyLocksFailsAtOnce ==
    \A c \in Callers :
        seen[c] > 2 => /\ pc[c] = "done"
                       /\ exit[c] = "failed"
                       /\ result[c].err # NilErr
                       /\ result[c].lck = NoPath

\* C4: two requests that differ in name and in node, with no further request
\* sharing a name or a node with either, are both oldest on the same directory.
C4_DomainIsolation ==
    LET alone == {e \in AllRequests : peers(fs, e) = {}}
    IN  \A e1, e2 \in alone :
            (/\ e1 # e2
             /\ decoded[e1].name # decoded[e2].name
             /\ decoded[e1].node # decoded[e2].node)
                => IsOldest(fs, e1) /\ IsOldest(fs, e2)

\* C4 witness: two callers with requests for different names, on different
\* nodes, have both found themselves oldest while both requests exist.
C4_Witness ==
    \E c, d \in Callers :
        /\ req[c] \in fs /\ req[d] \in fs
        /\ decoded[req[c]].name # decoded[req[d]].name
        /\ decoded[req[c]].node # decoded[req[d]].node
        /\ stamp(req[c]) < stamp(req[d])
        /\ pc[c] = "lock" /\ pc[d] = "lock"

C6_ErrorReportsBothFailures ==
    \A c \in Callers :
        (pc[c] = "done" /\ rm[c] = "failed"
            /\ exit[c] \in {"wait_timeout", "lock_timeout", "failed"})
            => /\ "RemoveFailed" \in result[c].err.says
               /\ exit[c] \in {"wait_timeout", "lock_timeout"}
                     => "TimedOut" \in result[c].err.says
               /\ exit[c] = "failed"
                     => "CreateLockFailed" \in result[c].err.says

\* the locks in the directory of caller c's configuration under the lock name
\* of that configuration
LocksFor(files, c) ==
    LET cf == config[procOf[c]]
    IN  {l \in locks(files, cf.Dir) : decoded[l].name = Replace(cf.Name, <<"/">>, <<"_">>)}

\* Acquire returned a lock and a nil error to caller c
Acquired(c) == pc[c] = "done" /\ result[c].lck # NoPath /\ result[c].err = NilErr

\* C7: under sequential execution, when Acquire returns a lock with a nil
\* error, the directory holds exactly one lock for the requested name, and it
\* is the lock returned.
C7_SingleHolderSequential ==
    [][\A c \in Callers :
          (pc[c] # "done" /\ Acquired(c)')
              => LocksFor(fs, c)' = {result'[c].lck}]_vars

\* C7 witness: a second call has acquired the lock after the first call's
\* lock was released.
C7_Witness ==
    \E c, d \in Callers :
        /\ c # d /\ Acquired(c) /\ Acquired(d)
        /\ result[c].lck \notin fs
        /\ LocksFor(fs, d) = {result[d].lck}

\* the outcome ACQUIRED of the first creation attempt: no sleep, one attempt
\* that counted 0 locks, the lock written and returned with a nil error, the
\* request removed
AcquiredAtOnce(c) ==
    /\ exit[c] = "acquired"
    /\ result[c].err = NilErr
    /\ result[c].lck \in fs
    /\ decoded[result[c].lck].filetype = lockFileType
    /\ req[c] \notin fs
    /\ attempts[c] = 1
    /\ seen[c] = 0
    /\ ~slept[c]

LocksOf(c) ==
    {l \in locks(fs, LockDir) : decoded[l].node = currentNode(procOf[c])}

\* C9: a caller whose last creation attempt counted 1 or 2 locks has written
\* no lock and has been returned no error; it is still in the lock-attempt
\* loop unless its deadline has passed.
C9_TransientContentionRetries ==
    \A c \in Callers :
        seen[c] \in {1, 2}
            => /\ pending[c] = NoPath
               /\ LocksOf(c) = {}
               /\ result[c] = NoResult
               /\ pc[c] = "lock" \/ (pc[c] = "done" /\ exit[c] = "lock_timeout")
               /\ ~Elapsed(c) => pc[c] = "lock"

\* C9 witness: a caller whose attempts all counted 1 or 2 locks has made a
\* second attempt.
C9_Witness ==
    \E c \in Callers :
        /\ pc[c] = "lock" /\ attempts[c] = 2 /\ seen[c] \in {1, 2} /\ ~iofail[c]
        /\ Cardinality(locks(fs, LockDir)) \in {1, 2}
        /\ \A d \in Callers : result[d].lck = NoPath

\* C10: the deadline's start is fixed when the call begins and is not changed
\* afterwards, and every creation attempt is made with now - start <= maxWait.
C10_OneDeadline ==
    [][\A c \in Callers :
          /\ pc[c] \in {"wait", "sleep", "lock", "write"}
                => started'[c] = started[c] /\ max'[c] = max[c]
          /\ attempts'[c] # attempts[c] => clock - started[c] <= max[c]]_vars

\* C10 witness: a caller that slept waiting for its turn found its deadline
\* passed on entering the lock-attempt phase, and made no attempt.
C10_Witness ==
    \E c \in Callers :
        /\ slept[c] /\ pc[c] = "done" /\ exit[c] = "lock_timeout"
        /\ attempts[c] = 0 /\ started[c] + max[c] < clock

\* the step is one of caller c's call of Acquire
ActsIn(c) == pc[c] # "done" /\ (pc'[c] # pc[c] \/ attempts'[c] # attempts[c])

\* entry f carries a token generated for caller c, on c's node
MadeBy(c, f) ==
    /\ decoded[f].node = currentNode(procOf[c])
    /\ \E k \in 0..MaxAttempts :
          decoded[f].ID = Replace(newUUID(c, k), <<"-">>, <<>>)

\* C11: in every step of a call of Acquire by caller c, an entry that appears
\* in the directory is c's own request or c's own lock, an entry that
\* disappears is c's own request, and every other entry stays.
C11_Frame ==
    [][\A c \in Callers :
          ActsIn(c)
              => /\ \A f \in fs' \ fs :
                       /\ MadeBy(c, f)
                       /\ \/ decoded[f].filetype = requestFileType
                                /\ req[c] = NoPath /\ f = req'[c]
                          \/ decoded[f].filetype = lockFileType /\ f = pending[c]
                 /\ \A f \in fs \ fs' : f = req[c] /\ MadeBy(c, f)]_vars

\* C11 witness: a caller has created its request and its lock and removed its
\* request while the request of another caller stayed in the directory.
C11_Witness ==
    \E c, d \in Callers :
        /\ c # d
        /\ exit[c] = "acquired" /\ rm[c] = "ok"
        /\ result[c].lck \in fs /\ req[c] \notin fs
        /\ req[d] \in fs

\* C12: the accessors applied to the path createEntryPath made for a caller's
\* request give back the name (slashes replaced), the node, the token (dashes
\* removed), the timestamp and the kind the path was made from.
C12_RoundTrip ==
    \A c \in Callers :
        req[c] # NoPath
            => /\ name(req[c]) = Replace(config[procOf[c]].Name, <<"/">>, <<"_">>)
               /\ node(req[c]) = currentNode(procOf[c])
               /\ ID(req[c]) = Replace(newUUID(c, 0), <<"-">>, <<>>)
               /\ filetype(req[c]) = requestFileType
               /\ created(req[c]) = started[c]

\* C12: what does hold of the accessors: all the fields but the timestamp
\* are given back, and created() is 0 whatever the timestamp.
C12_RoundTripButCreated ==
    \A c \in Callers :
        req[c] # NoPath
            => /\ name(req[c]) = Replace(config[procOf[c]].Name, <<"/">>, <<"_">>)
               /\ node(req[c]) = currentNode(procOf[c])
               /\ ID(req[c]) = Replace(newUUID(c, 0), <<"-">>, <<>>)
               /\ filetype(req[c]) = requestFileType
               /\ created(req[c]) = 0

\* C13: when the write of the lock fails, after a count of 0 locks, Acquire
\* returns a non-nil error and no lock at that step, without another attempt,
\* having tried to remove the caller's request.
C13_WriteFailureFails ==
    [][\A c \in Callers :
          (pc[c] = "write" /\ pc'[c] # "write" /\ pending[c] \notin fs')
              => /\ pc'[c] = "done"
                 /\ exit'[c] = "failed"
                 /\ result'[c].err # NilErr
                 /\ result'[c].lck = NoPath
                 /\ rm'[c] # "none"]_vars

\* C13: a caller whose write of the lock failed is back in the lock-attempt
\* loop and has attempted again.
C13_RetriedAfterWriteFailure ==
    \E c \in Callers :
        /\ iofail[c] /\ pc[c] = "lock" /\ attempts[c] = 2
        /\ seen[c] = 0 /\ rm[c] = "none" /\ req[c] \in fs

\* C14: a caller whose creation attempt counted a lock and that is back in
\* the lock-attempt loop does not make its next attempt as its next step: a
\* sleep comes between two attempts.
C14_SleepBetweenAttempts ==
    [][\A c \in Callers :
          (pc[c] = "lock" /\ attempts[c] >= 1 /\ seen[c] >= 1 /\ ActsIn(c))
              => attempts'[c] = attempts[c]]_vars

\* C14: a caller has made two creation attempts and has never slept.
C14_TwoAttemptsNoSleep ==
    \E c \in Callers : attempts[c] = 2 /\ ~slept[c] /\ seen[c] \in {1, 2}

\* the lock entries of the directory, whatever their name or node
LockFiles(files) ==
    {f \in files : decoded[f].dir = LockDir /\ decoded[f].filetype = lockFileType}

\* C15: a creation attempt made while the directory holds a lock entry, of
\* whatever name or node, writes nothing and does not go on to the write; a
\* lock entry is written only by a caller whose attempt counted 0 locks.
C15_DirectoryWideCheck ==
    [][/\ \A c \in Callers :
             (attempts'[c] # attempts[c] /\ LockFiles(fs) # {})
                 => pc'[c] # "write" /\ pending'[c] = NoPath /\ fs' \subseteq fs
       /\ \A f \in LockFiles(fs') \ LockFiles(fs) :
             \E c \in Callers : pc[c] = "write" /\ seen[c] = 0 /\ f = pending[c]]_vars

\* C15 witness: a caller asking for one name has attempted while the only
\* lock of the directory was of another name and another node, and was
\* refused.
C15_Witness ==
    \E c \in Callers :
        /\ attempts[c] >= 1 /\ seen[c] = 1 /\ pc[c] = "lock" /\ ~iofail[c]
        /\ Cardinality(LockFiles(fs)) = 1
        /\ \A f \in LockFiles(fs) :
              /\ decoded[f].name # config[procOf[c]].Name
              /\ decoded[f].node # currentNode(procOf[c])

\* the lock entries of the directory under the name nm
LockFilesNamed(files, nm) == {f \in LockFiles(files) : decoded[f].name = nm}

\* C16: on a directory that starts empty, whatever the interleaving of the
\* callers' steps, at most one lock entry of a name exists at any time.
C16_OneLockPerName ==
    \A nm \in Names : Cardinality(LockFilesNamed(fs, nm)) <= 1

\* C16 witness: of two callers asking for the same name, one holds the lock
\* and the other, having reached the lock-attempt loop, counted it and wrote
\* nothing.
C16_Witness ==
    \E c, d \in Callers :
        /\ c # d
        /\ config[procOf[c]].Name = config[procOf[d]].Name
        /\ Acquired(c) /\ result[c].lck \in fs
        /\ pc[d] = "lock" /\ seen[d] = 1 /\ ~iofail[d]
        /\ Cardinality(LockFilesNamed(fs, config[procOf[c]].Name)) = 1

\* C17: on a directory that starts empty, whatever the interleaving of the
\* callers' steps, the directory never holds more than one lock entry.
C17_OneLockPerDirectory == Cardinality(LockFiles(fs)) <= 1

\* C17: two callers hold a lock in the same directory at the same time, each
\* returned by Acquire with a nil error.
C17_TwoHolders ==
    \E c, d \in Callers :
        /\ c # d
        /\ Acquired(c) /\ Acquired(d)
        /\ result[c].lck \in fs /\ result[d].lck \in fs

\* callers c and d both wait for their turn with requests for the same name,
\* no lock exists and neither deadline has passed
Competing(c, d) ==
    /\ c # d
    /\ pc[c] \in {"wait", "sleep"} /\ pc[d] \in {"wait", "sleep"}
    /\ req[c] \in fs /\ req[d] \in fs
    /\ decoded[req[c]].name = decoded[req[d]].name
    /\ LockFiles(fs) = {}
    /\ ~Elapsed(c) /\ ~Elapsed(d)

\* caller c has left the loop in which it waits for its turn to attempt the lock
LeftWaiting(c) == pc[c] \in {"lock", "write"} \/ exit[c] \in {"acquired", "lock_timeout"}

\* C18: under weak fairness, when two callers whose deadlines are MaxTime
\* seconds away wait with requests for the same name, no lock exists and no
\* deadline has passed, one of them eventually leaves the waiting-turn phase
\* to create the lock, unless a deadline passes first.
C18_Progress ==
    \A c, d \in Callers :
        (Competing(c, d) /\ max[c] = MaxTime /\ max[d] = MaxTime)
            ~> (LeftWaiting(c) \/ LeftWaiting(d) \/ Elapsed(c) \/ Elapsed(d))

\* C18: two callers wait with requests for the same name, no lock exists, no
\* deadline can pass, and both have found themselves not the oldest.
C18_BothBlocked ==
    \E c, d \in Callers :
        /\ Competing(c, d)
        /\ max[c] = MaxTime /\ max[d] = MaxTime
        /\ slept[c] /\ slept[d]

\* C19: when Acquire has returned a non-nil error to a caller, the directory
\* holds no lock entry that the call wrote.
C19_ErrorLeavesNoLock ==
    \A c \in Callers :
        (pc[c] = "done" /\ result[c].err # NilErr)
            => \A f \in LockFiles(fs) : ~MadeBy(c, f)

\* C19: Acquire has returned a non-nil error, the removal of the request
\* having failed, and the lock it wrote is in the directory.
C19_ErrorWithLock ==
    \E c \in Callers :
        /\ pc[c] = "done" /\ exit[c] = "acquired" /\ rm[c] = "failed"
        /\ result[c].err # NilErr
        /\ result[c].lck \in LockFiles(fs) /\ MadeBy(c, result[c].lck)

\* the Configuration caller c's call of Acquire is to use: the one it passed,
\* or the default one when it passed nil
Passed(c) == IF arg[c].isNil THEN DefaultConfig ELSE arg[c].cfg

\* entry e is in the directory and under the lock name of Configuration cf
Under(e, cf) ==
    /\ decoded[e].dir = cf.Dir
    /\ decoded[e].name = Replace(cf.Name, <<"/">>, <<"_">>)

\* C20: the request and the lock of every call of Acquire are in the
\* directory and under the lock name of the Configuration passed to that
\* call, the default one when nil was passed, whatever other calls the
\* process makes.
C20_OwnConfiguration ==
    \A c \in Callers :
        /\ req[c] # NoPath => Under(req[c], Passed(c))
        /\ pending[c] # NoPath => Under(pending[c], Passed(c))
        /\ result[c].lck # NoPath => Under(result[c].lck, Passed(c))

\* C20: a call that passed nil, made in a process where a call passed another
\* Configuration, has created its request under that Configuration.
C20_NilUsesEarlierConfiguration ==
    \E c, d \in Callers :
        /\ c # d
        /\ pc[c] # "idle" /\ arg[c].isNil /\ ~arg[d].isNil
        /\ req[c] \in fs
        /\ Under(req[c], arg[d].cfg) /\ ~Under(req[c], DefaultConfig)

\* C20: of two calls interleaved in one process with different Configurations,
\* one has created its request under the name the other passed.
C20_UsesOtherConfiguration ==
    \E c, d \in Callers :
        /\ c # d
        /\ ~arg[c].isNil /\ ~arg[d].isNil /\ arg[c].cfg.Name # arg[d].cfg.Name
        /\ req[c] \in fs
        /\ Under(req[c], arg[d].cfg) /\ ~Under(req[c], arg[c].cfg)

====
